---------------------------- MODULE Spec2Model ----------------------------
(***************************************************************************)
(* A model of class Prime (src/prime.py): the two-tier prime cache, the    *)
(* mutually recursive iter_primes / is_prime pair, prime_factors,          *)
(* are_prime, and the load / save checkpoint operations.                   *)
(*                                                                         *)
(* Python values are modelled as follows.                                  *)
(*   - an optional value (None or v) is the sequence <<>> or <<v>>;         *)
(*   - the engine state is the record [kp, kpc]: kp is the set             *)
(*     __known_primes, kpc the list __known_primes_contiguous (1-indexed   *)
(*     here, 0-indexed in the source);                                     *)
(*   - a generator object is the record of iter_primes' arguments and      *)
(*     locals plus its position pc;                                        *)
(*   - a raised exception is the field err (NoErr when nothing is raised); *)
(*   - the text of the checkpoint file is a sequence of one-character      *)
(*     strings.                                                            *)
(***************************************************************************)
EXTENDS Integers, Sequences, FiniteSets

VARIABLES
    known_primes,             \* Prime.__known_primes
    known_primes_contiguous,  \* Prime.__known_primes_contiguous
    gens,                     \* the generator objects the caller holds
    last,                     \* the last completed call: its name and its exception
    store                     \* the checkpoint file: <<>> absent, <<text>> present

vars == <<known_primes, known_primes_contiguous, gens, last, store>>

-----------------------------------------------------------------------------
(* Bounds of the model.                                                    *)

\* is_prime and prime_factors are called with n in 0..MaxArg (and BigArgs).
MaxArg == 16

\* iter_primes is created with max_value in -1..MaxValue.
MaxValue == 14

\* iter_primes is created with max_num in 0..MaxCount.
MaxCount == 6

\* A caller's generator is advanced only while the prefix is shorter.
MaxPrefix == 8

\* The growth loop of iter_primes (lines 74-77) has no bound of its own when
\* max_value is None.  Once the candidate is more than MaxGap past the last
\* prime of the prefix the model ends the loop with the outcome "Diverges",
\* which stands for a loop that does not end; two consecutive primes below
\* 200 are at most 14 apart, so a growth that can succeed stays within it.
MaxGap == 20

NoErr == "none"

None == <<>>

Some(v) == <<v>>

-----------------------------------------------------------------------------
(* Number theory the claims are stated against.                            *)

Divides(d, n) == n % d = 0

\* No d with 2 <= d and d*d <= n divides n.
TrialPrime(n) == n >= 2 /\ \A d \in 2..n : (d * d <= n) => ~Divides(d, n)

\* The ascending list of all primes <= m.
RECURSIVE PrimesUpTo(_)
PrimesUpTo(m) ==
    IF m < 2 THEN <<>>
    ELSE IF TrialPrime(m) THEN Append(PrimesUpTo(m - 1), m)
    ELSE PrimesUpTo(m - 1)

\* The first k primes, ascending.
RECURSIVE FirstPrimesFrom(_, _)
FirstPrimesFrom(k, c) ==
    IF k <= 0 THEN <<>>
    ELSE IF TrialPrime(c) THEN <<c>> \o FirstPrimesFrom(k - 1, c + 1)
    ELSE FirstPrimesFrom(k, c + 1)

FirstPrimes(k) == FirstPrimesFrom(k, 2)

RECURSIVE Product(_)
Product(s) == IF s = <<>> THEN 1 ELSE Head(s) * Product(Tail(s))

Range(s) == {s[i] : i \in 1..Len(s)}

IsPrefixOf(s, t) == Len(s) <= Len(t) /\ SubSeq(t, 1, Len(s)) = s

-----------------------------------------------------------------------------
(* Prime cache: src/prime.py lines 10-35.                                  *)

\* The setter rebuilding the set from the new prefix alone.
kpc_setter_rebuilding(st, kpc) ==
    [kp |-> Range(kpc), kpc |-> kpc]

\* known_primes_contiguous.setter (lines 32-35): replace the list, union it
\* into the set.
kpc_setter(st, kpc) == [kp |-> st.kp \cup Range(kpc), kpc |-> kpc]

\* _add_known_prime that also records the number before p.
add_known_prime_and_neighbour(st, p) == [st EXCEPT !.kp = st.kp \cup {p - 1, p}]

\* _add_known_prime (lines 24-26).
add_known_prime(st, p) ==
    IF p \notin st.kp THEN [st EXCEPT !.kp = st.kp \cup {p}] ELSE st

\* __init__ (lines 10-14): the empty set, then the seed through the setter.
SeedPrefix == <<2, 3, 5, 7, 11>>

InitState == kpc_setter([kp |-> {}, kpc |-> <<>>], SeedPrefix)

-----------------------------------------------------------------------------
(* iter_primes and is_prime: src/prime.py lines 38-116.                    *)

\* The generator object iter_primes(max_value, max_num, start_num) returns:
\* no line of the body runs before the first next().
NewGen(max_value, max_num, start_num) ==
    [max_value |-> max_value, max_num |-> max_num, start_num |-> start_num,
     ii |-> 0, c |-> 1, pc |-> "created"]

\* finished with the value bound exclusive (c >= max_value).
finished_value_exclusive(g, c, ii) ==
    \/ (g.max_value # None /\ c >= g.max_value[1])
    \/ (g.max_num # None /\ ii # None /\ ii[1] >= g.max_num[1])

\* finished with the count bound off by one (ii > max_num).
finished_count_late(g, c, ii) ==
    \/ (g.max_value # None /\ c > g.max_value[1])
    \/ (g.max_num # None /\ ii # None /\ ii[1] > g.max_num[1])

\* _finished(c, ii) (lines 65-67).
finished(g, c, ii) ==
    \/ (g.max_value # None /\ c > g.max_value[1])
    \/ (g.max_num # None /\ ii # None /\ ii[1] >= g.max_num[1])

\* What one next() of a generator produces.
Yield(st, g, p) ==
    [ev |-> "yield", val |-> p, err |-> NoErr, g |-> [g EXCEPT !.pc = "suspended"], st |-> st]

Return(st, g) ==
    [ev |-> "return", val |-> 0, err |-> NoErr, g |-> [g EXCEPT !.pc = "done"], st |-> st]

Raise(st, g, e) ==
    [ev |-> "raise", val |-> 0, err |-> e, g |-> [g EXCEPT !.pc = "done"], st |-> st]

RECURSIVE iter_outer(_, _), iter_inner(_, _), iter_grow(_, _), iter_next(_, _)
RECURSIVE iter_tested(_, _), is_prime(_, _), is_prime_loop(_, _, _), is_prime_step(_, _)

\* is_prime_test with the square test first and inclusive (p**2 >= n).
is_prime_test_square_first(st, n, p) ==
    IF p * p >= n
    THEN [decided |-> TRUE, rv |-> Some(TRUE), st |-> add_known_prime(st, n)]
    ELSE IF n % p = 0 THEN [decided |-> TRUE, rv |-> Some(FALSE), st |-> st]
    ELSE [decided |-> FALSE, rv |-> None, st |-> st]

\* is_prime_test going on until p**2 > 2*n.
is_prime_test_past_square(st, n, p) ==
    IF n % p = 0 THEN [decided |-> TRUE, rv |-> Some(FALSE), st |-> st]
    ELSE IF p * p > 2 * n
         THEN [decided |-> TRUE, rv |-> Some(TRUE), st |-> add_known_prime(st, n)]
         ELSE [decided |-> FALSE, rv |-> None, st |-> st]

\* is_prime_test recording n in the set when a divisor is found too.
is_prime_test_records_composite(st, n, p) ==
    IF n % p = 0 THEN [decided |-> TRUE, rv |-> Some(FALSE), st |-> add_known_prime(st, n)]
    ELSE IF p * p > n
         THEN [decided |-> TRUE, rv |-> Some(TRUE), st |-> add_known_prime(st, n)]
         ELSE [decided |-> FALSE, rv |-> None, st |-> st]

\* The body of is_prime's for loop for one divisor p (lines 106-114):
\* <<decided, rv, st>>.
is_prime_test(st, n, p) ==
    IF n % p = 0 THEN [decided |-> TRUE, rv |-> Some(FALSE), st |-> st]
    ELSE IF p * p > n
         THEN [decided |-> TRUE, rv |-> Some(TRUE), st |-> add_known_prime(st, n)]
         ELSE [decided |-> FALSE, rv |-> None, st |-> st]

\* One turn of is_prime's for loop (lines 105-114) once the divisor stream
\* has answered r.  rv stays None when the stream ends without a break.
is_prime_step(r, n) ==
    CASE r.ev = "raise" -> [rv |-> None, err |-> r.err, st |-> r.st]
      [] r.ev = "return" -> [rv |-> None, err |-> NoErr, st |-> r.st]
      [] OTHER ->
           IF r.val = 0 THEN [rv |-> None, err |-> "ZeroDivisionError", st |-> r.st]
           ELSE LET t == is_prime_test(r.st, n, r.val)
                IN  IF t.decided THEN [rv |-> t.rv, err |-> NoErr, st |-> t.st]
                    ELSE is_prime_loop(t.st, n, r.g)

\* is_prime's for loop over iter_primes() (line 105); g is the divisor
\* stream.
is_prime_loop(st, n, g) == is_prime_step(iter_next(st, g), n)

\* is_prime answering false for every n below 2.
is_prime_false_below_two(st, n) ==
    IF n < 2 THEN [rv |-> Some(FALSE), err |-> NoErr, st |-> st]
    ELSE IF n \in st.kp THEN [rv |-> Some(TRUE), err |-> NoErr, st |-> st]
    ELSE is_prime_loop(st, n, NewGen(None, None, None))

\* is_prime(n) (lines 85-116).
is_prime(st, n) ==
    IF n \in st.kp THEN [rv |-> Some(TRUE), err |-> NoErr, st |-> st]
    ELSE is_prime_loop(st, n, NewGen(None, None, None))

\* iter_tested stepping the candidate by 4.
iter_tested_step4(r, g) ==
    IF r.err # NoErr THEN Raise(r.st, g, r.err)
    ELSE IF r.rv = Some(TRUE)
         THEN iter_inner(kpc_setter(r.st, Append(r.st.kpc, g.c)), g)
         ELSE LET g1 == [g EXCEPT !.c = g.c + 4]
              IN  IF finished(g1, g1.c, None) THEN Return(r.st, g1)
                  ELSE IF g1.c > r.st.kpc[Len(r.st.kpc)] + MaxGap
                       THEN Raise(r.st, g1, "Diverges")
                  ELSE iter_grow(r.st, g1)

\* Lines 75-78 once is_prime(c) has answered r: append c through the setter
\* when it is prime, else step it by 2 and test again.
iter_tested(r, g) ==
    IF r.err # NoErr THEN Raise(r.st, g, r.err)
    ELSE IF r.rv = Some(TRUE)
         THEN iter_inner(kpc_setter(r.st, Append(r.st.kpc, g.c)), g)
         ELSE LET g1 == [g EXCEPT !.c = g.c + 2]
              IN  IF finished(g1, g1.c, None) THEN Return(r.st, g1)
                  ELSE IF g1.c > r.st.kpc[Len(r.st.kpc)] + MaxGap
                       THEN Raise(r.st, g1, "Diverges")
                  ELSE iter_grow(r.st, g1)

\* Line 75: the growth loop tests the candidate g.c.
iter_grow(st, g) == iter_tested(is_prime(st, g.c), g)

\* iter_inner resuming the growth from the generator's own last candidate
\* instead of the last element of the prefix.
iter_inner_from_own_candidate(st, g) ==
    IF g.ii + 1 > Len(st.kpc)
    THEN IF st.kpc = <<>> THEN Raise(st, g, "IndexError")
         ELSE LET g1 == [g EXCEPT !.c = IF g.c > 1 THEN g.c + 2
                                        ELSE st.kpc[Len(st.kpc)] + 2]
              IN  IF finished(g1, g1.c, None) THEN Return(st, g1)
                  ELSE iter_grow(st, g1)
    ELSE LET next_p == st.kpc[g.ii + 1]
         IN  IF finished(g, next_p, None) THEN Return(st, g)
             ELSE Yield(st, [g EXCEPT !.ii = g.ii + 1], next_p)

\* Lines 70-83: the inner while loop, then the next prime of the prefix.
iter_inner(st, g) ==
    IF g.ii + 1 > Len(st.kpc)
    THEN IF st.kpc = <<>> THEN Raise(st, g, "IndexError")
         ELSE LET g1 == [g EXCEPT !.c = st.kpc[Len(st.kpc)] + 2]
              IN  IF finished(g1, g1.c, None) THEN Return(st, g1)
                  ELSE iter_grow(st, g1)
    ELSE LET next_p == st.kpc[g.ii + 1]
         IN  IF finished(g, next_p, None) THEN Return(st, g)
             ELSE Yield(st, [g EXCEPT !.ii = g.ii + 1], next_p)

\* Line 69: the outer loop test, on entry and on every resumption.
iter_outer(st, g) ==
    IF finished(g, g.c, Some(g.ii)) THEN Return(st, g) ELSE iter_inner(st, g)

\* iter_next refusing the start index equal to the length of the prefix.
iter_next_start_inclusive(st, g) ==
    CASE g.pc = "done" -> Return(st, g)
      [] g.pc = "created" ->
           LET ii == IF g.start_num = None THEN 0 ELSE g.start_num[1]
           IN  IF ii >= Len(st.kpc) THEN Raise(st, g, "NotImplementedError")
               ELSE iter_outer(st, [g EXCEPT !.ii = ii, !.c = 1])
      [] OTHER -> iter_outer(st, g)

\* One next() of a generator: from its creation (lines 60-68) or from the
\* yield of line 83 to the next yield, return or raise.
iter_next(st, g) ==
    CASE g.pc = "done" -> Return(st, g)
      [] g.pc = "created" ->
           LET ii == IF g.start_num = None THEN 0 ELSE g.start_num[1]
           IN  IF ii > Len(st.kpc) THEN Raise(st, g, "NotImplementedError")
               ELSE iter_outer(st, [g EXCEPT !.ii = ii, !.c = 1])
      [] OTHER -> iter_outer(st, g)

-----------------------------------------------------------------------------
(* prime_factors and are_prime: src/prime.py lines 118-157.                *)

\* n**(1/2) (line 135) is only ever compared with integers c, as c > n**(1/2):
\* that holds exactly when c exceeds the integer square root of n (the float
\* is exact to well beyond the numbers of this model).
Sqrt(n) == CHOOSE r \in 0..n : r * r <= n /\ (r + 1) * (r + 1) > n

RECURSIVE prime_factors(_, _), prime_factors_loop(_, _, _)

\* prime_factors_loop that does not factor the cofactor n//p.
prime_factors_loop_no_recursion(st, n, g) ==
    LET r == iter_next(st, g)
    IN  CASE r.ev = "raise" -> [f |-> <<>>, err |-> r.err, st |-> r.st]
          [] r.ev = "return" -> [f |-> <<n>>, err |-> NoErr, st |-> r.st]
          [] OTHER ->
               IF r.val = 0 THEN [f |-> <<>>, err |-> "ZeroDivisionError", st |-> r.st]
               ELSE IF n % r.val = 0
               THEN [f |-> <<r.val, n \div r.val>>, err |-> NoErr, st |-> r.st]
               ELSE prime_factors_loop(r.st, n, r.g)

\* The for loop of lines 135-139 over the stream g, then lines 140-142.
prime_factors_loop(st, n, g) ==
    LET r == iter_next(st, g)
    IN  CASE r.ev = "raise" -> [f |-> <<>>, err |-> r.err, st |-> r.st]
          [] r.ev = "return" -> [f |-> <<n>>, err |-> NoErr, st |-> r.st]
          [] OTHER ->
               IF r.val = 0 THEN [f |-> <<>>, err |-> "ZeroDivisionError", st |-> r.st]
               ELSE IF n % r.val = 0
               THEN LET rest == prime_factors(r.st, n \div r.val)
                    IN  [f |-> <<r.val>> \o rest.f, err |-> rest.err, st |-> rest.st]
               ELSE prime_factors_loop(r.st, n, r.g)

\* prime_factors(n) (lines 118-142).
prime_factors(st, n) ==
    prime_factors_loop(st, n, NewGen(Some(Sqrt(n)), None, None))

\* are_prime(candidates) (lines 144-157): every candidate is tested, found
\* records whether one was not prime.
RECURSIVE are_prime_loop(_, _, _)
\* are_prime_loop where each test overwrites found.
are_prime_loop_overwrite(st, candidates, found) ==
    IF candidates = <<>> THEN [rv |-> Some(~found), err |-> NoErr, st |-> st]
    ELSE LET r == is_prime(st, Head(candidates))
         IN  IF r.err # NoErr THEN [rv |-> None, err |-> r.err, st |-> r.st]
             ELSE are_prime_loop(r.st, Tail(candidates), r.rv # Some(TRUE))

are_prime_loop(st, candidates, found) ==
    IF candidates = <<>> THEN [rv |-> Some(~found), err |-> NoErr, st |-> st]
    ELSE LET r == is_prime(st, Head(candidates))
         IN  IF r.err # NoErr THEN [rv |-> None, err |-> r.err, st |-> r.st]
             ELSE are_prime_loop(r.st, Tail(candidates), found \/ r.rv # Some(TRUE))

are_prime(st, candidates) == are_prime_loop(st, candidates, FALSE)

-----------------------------------------------------------------------------
(* Checkpoint text: str(p), '\n'.join, readlines and int (lines 162, 178),  *)
(* for numbers >= 0 and texts of digits and newlines.                      *)

DigitChar == <<"0", "1", "2", "3", "4", "5", "6", "7", "8", "9">>

NL == "\n"

IsDigit(ch) == \E d \in 1..10 : DigitChar[d] = ch

DigitVal(ch) == (CHOOSE d \in 1..10 : DigitChar[d] = ch) - 1

\* str(p) for p >= 0.
RECURSIVE str(_)
\* str writing the least significant digit first.
str_least_digit_first(p) ==
    IF p < 10 THEN <<DigitChar[p + 1]>>
    ELSE <<DigitChar[(p % 10) + 1]>> \o str(p \div 10)

str(p) ==
    IF p < 10 THEN <<DigitChar[p + 1]>>
    ELSE Append(str(p \div 10), DigitChar[(p % 10) + 1])

\* '\n'.join(strs).
RECURSIVE join(_)
join(strs) ==
    IF strs = <<>> THEN <<>>
    ELSE IF Len(strs) = 1 THEN strs[1]
    ELSE strs[1] \o <<NL>> \o join(Tail(strs))

\* f.readlines(): the lines of the text, each with its newline.
RECURSIVE readlines_from(_, _)
readlines_from(text, cur) ==
    IF text = <<>> THEN (IF cur = <<>> THEN <<>> ELSE <<cur>>)
    ELSE IF Head(text) = NL THEN <<Append(cur, NL)>> \o readlines_from(Tail(text), <<>>)
    ELSE readlines_from(Tail(text), Append(cur, Head(text)))

readlines(text) == readlines_from(text, <<>>)

\* int(line): surrounding whitespace is stripped; <<>> when int raises
\* ValueError (no digit, or a character that is no digit).
RECURSIVE digits_value(_, _)
digits_value(ds, acc) ==
    IF ds = <<>> THEN acc
    ELSE digits_value(Tail(ds), acc * 10 + DigitVal(Head(ds)))

strip(line) ==
    IF line # <<>> /\ line[Len(line)] = NL THEN SubSeq(line, 1, Len(line) - 1) ELSE line

int(line) ==
    LET ds == strip(line)
    IN  IF ds = <<>> \/ \E i \in 1..Len(ds) : ~IsDigit(ds[i]) THEN None
        ELSE Some(digits_value(ds, 0))

-----------------------------------------------------------------------------
(* load and save: src/prime.py lines 159-179.                              *)

\* Line 164 builds the ValueError below, but its argument names verify_num,
\* which is defined nowhere: evaluating it raises NameError instead.
CorruptCheckpointError == "ValueError: first loaded numbers are not prime"

NameErrorVerifyNum == "NameError: name 'verify_num' is not defined"

RegressionError == "ValueError: primes loaded, but already have"

\* kpc[0:verify] for verify >= 0.
Slice(kpc, verify) == SubSeq(kpc, 1, IF verify < Len(kpc) THEN verify ELSE Len(kpc))

\* [int(i) for i in f.readlines()] (line 162): None when an int() raises.
parse_lines(text) ==
    LET lines == readlines(text)
        parsed == [i \in 1..Len(lines) |-> int(lines[i])]
    IN  IF \E i \in 1..Len(parsed) : parsed[i] = None THEN None
        ELSE Some([i \in 1..Len(parsed) |-> parsed[i][1]])

\* Lines 163-171 with the set reset after the prefix is assigned.
load_parsed_reset_last(st, kpc, verify, load_smaller) ==
    LET v == IF verify # 0 THEN are_prime(st, Slice(kpc, verify))
             ELSE [rv |-> Some(TRUE), err |-> NoErr, st |-> st]
    IN  IF v.err # NoErr THEN [err |-> v.err, st |-> v.st]
        ELSE IF verify # 0 /\ v.rv # Some(TRUE)
        THEN [err |-> NameErrorVerifyNum, st |-> v.st]
        ELSE IF Len(v.st.kpc) > Len(kpc) /\ ~load_smaller
        THEN [err |-> RegressionError, st |-> v.st]
        ELSE [err |-> NoErr, st |-> [kpc_setter(v.st, kpc) EXCEPT !.kp = {}]]

\* Lines 163-171: verify the sample, refuse to shrink, reset the set and
\* assign the prefix through the setter.
load_parsed(st, kpc, verify, load_smaller) ==
    LET v == IF verify # 0 THEN are_prime(st, Slice(kpc, verify))
             ELSE [rv |-> Some(TRUE), err |-> NoErr, st |-> st]
    IN  IF v.err # NoErr THEN [err |-> v.err, st |-> v.st]
        ELSE IF verify # 0 /\ v.rv # Some(TRUE)
        THEN [err |-> NameErrorVerifyNum, st |-> v.st]
        ELSE IF Len(v.st.kpc) > Len(kpc) /\ ~load_smaller
        THEN [err |-> RegressionError, st |-> v.st]
        ELSE [err |-> NoErr, st |-> kpc_setter([v.st EXCEPT !.kp = {}], kpc)]

\* load(fname, verify, load_smaller) (lines 159-171) on the file content file
\* (None: no such file): [err, st].
load(st, file, verify, load_smaller) ==
    IF file = None THEN [err |-> "FileNotFoundError", st |-> st]
    ELSE IF parse_lines(file[1]) = None
    THEN [err |-> "ValueError: invalid literal for int()", st |-> st]
    ELSE load_parsed(st, parse_lines(file[1])[1], verify, load_smaller)

\* save(fname, overwrite) (lines 173-179): [err, file, bytes_written].
save(st, file, overwrite) ==
    IF ~overwrite /\ file # None
    THEN [err |-> "FileExistsError", file |-> file, bytes_written |-> None]
    ELSE LET text == join([i \in 1..Len(st.kpc) |-> str(st.kpc[i])])
         IN  [err |-> NoErr, file |-> Some(text), bytes_written |-> Some(Len(text))]

-----------------------------------------------------------------------------
(* The engine and its callers as a state machine.                          *)

\* The engine state the operators above work on.
St == [kp |-> known_primes, kpc |-> known_primes_contiguous]

\* The names a caller binds generators to.
Handles == {"g1", "g2"}

\* Arguments above the seed's square, where is_prime has to grow the prefix.
BigArgs == {121, 127, 169, 173}

Args == (0..MaxArg) \cup BigArgs

\* are_prime's candidate lists.
CandLists ==
    {<<>>, <<2, 3, 5>>, <<2, 3, 5, 6>>, <<13>>, <<9, 13>>, <<13, 9>>,
     <<13, 9, 2>>, <<127, 13>>, <<127, 169>>}

\* iter_primes' arguments <<max_value, max_num, start_num>>.
ValueArgs == {<<Some(m), None, None>> : m \in (-1)..MaxValue}

CountArgs ==
    {<<None, Some(k), s>> : k \in 0..MaxCount,
                            s \in {None} \cup {Some(i) : i \in 0..MaxCount}}

Unbounded == <<None, None, None>>

IterArgs == ValueArgs \cup CountArgs \cup {Unbounded}

\* Prime.__init__ (lines 10-14); the caller holds no generator and no
\* checkpoint file exists.
Init ==
    /\ known_primes = InitState.kp
    /\ known_primes_contiguous = InitState.kpc
    /\ gens = [h \in Handles |-> None]
    /\ last = [op |-> "__init__", err |-> NoErr]
    /\ store = None

\* Each action below is one completed call of the caller.  A call whose
\* growth loop does not end (the outcome "Diverges") never completes: it has
\* no step.

\* p.is_prime(n)
IsPrimeCall(n) ==
    LET r == is_prime(St, n)
    IN  /\ r.err # "Diverges"
        /\ known_primes' = r.st.kp
        /\ known_primes_contiguous' = r.st.kpc
        /\ last' = [op |-> "is_prime", err |-> r.err]
        /\ UNCHANGED <<gens, store>>

\* p.are_prime(candidates)
ArePrimeCall(candidates) ==
    LET r == are_prime(St, candidates)
    IN  /\ r.err # "Diverges"
        /\ known_primes' = r.st.kp
        /\ known_primes_contiguous' = r.st.kpc
        /\ last' = [op |-> "are_prime", err |-> r.err]
        /\ UNCHANGED <<gens, store>>

\* p.prime_factors(n)
PrimeFactorsCall(n) ==
    LET r == prime_factors(St, n)
    IN  /\ r.err # "Diverges"
        /\ known_primes' = r.st.kp
        /\ known_primes_contiguous' = r.st.kpc
        /\ last' = [op |-> "prime_factors", err |-> r.err]
        /\ UNCHANGED <<gens, store>>

\* h = p.iter_primes(max_value, max_num, start_num): a generator object is
\* created, none of its body runs.  out is the list of the primes the
\* generator has yielded, len0 the length of the prefix when its body started.
IterPrimesCall(h, a) ==
    /\ gens' = [gens EXCEPT ![h] =
                  Some([g |-> NewGen(a[1], a[2], a[3]), out |-> <<>>,
                        len0 |-> None, err |-> NoErr])]
    /\ last' = [op |-> "iter_primes", err |-> NoErr]
    /\ UNCHANGED <<known_primes, known_primes_contiguous, store>>

\* next(h): the generator runs to its next yield, return or raise.
NextCall(h) ==
    /\ gens[h] # None
    /\ gens[h][1].g.ii < MaxPrefix
    /\ LET s == gens[h][1]
           r == iter_next(St, s.g)
       IN  /\ r.err # "Diverges"
           /\ known_primes' = r.st.kp
           /\ known_primes_contiguous' = r.st.kpc
           /\ gens' = [gens EXCEPT ![h] =
                         Some([g |-> r.g,
                               out |-> IF r.ev = "yield" THEN Append(s.out, r.val)
                                       ELSE s.out,
                               len0 |-> IF s.g.pc = "created"
                                        THEN Some(Len(known_primes_contiguous))
                                        ELSE s.len0,
                               err |-> r.err])]
           /\ last' = [op |-> "next", err |-> r.err]
    /\ UNCHANGED store

\* The calls that return a value, with the arguments the caller passes.
Calls(args, candlists) ==
    \/ \E n \in args : IsPrimeCall(n)
    \/ \E candidates \in candlists : ArePrimeCall(candidates)
    \/ \E n \in args : PrimeFactorsCall(n)

\* The creation and the resumption of generators bound to the handles hs.
Generators(hs, iterargs) ==
    \/ \E h \in hs, a \in iterargs : IterPrimesCall(h, a)
    \/ \E h \in hs : NextCall(h)

\* The queries of a caller.
Queries(args, candlists, hs, iterargs) ==
    Calls(args, candlists) \/ Generators(hs, iterargs)

\* A few arguments of each kind, for the specifications that vary another.
FewArgs == {1, 9, 13, 127, 169}

FewCandLists == {<<2, 3, 5, 6>>, <<13, 9>>, <<127, 13>>}

FewIterArgs ==
    {Unbounded, <<Some(13), None, None>>, <<Some(4), None, None>>,
     <<None, Some(7), Some(5)>>, <<None, Some(3), None>>}

\* Every query, with iter_primes in a few forms.
Next == Queries(Args, CandLists, {"g1"}, FewIterArgs)

Spec == Init /\ [][Next]_vars

\* Every form of iter_primes, with a few of the other queries.
NextIter == Queries(FewArgs, FewCandLists, {"g1"}, IterArgs)

SpecIter == Init /\ [][NextIter]_vars

\* Every query with integer arguments >= 2 only.
NextGe2 == Queries(Args \ {0, 1}, CandLists, {"g1"}, FewIterArgs)

SpecGe2 == Init /\ [][NextGe2]_vars

\* The checkpoint files another program may have left, in save's format: one
\* with a composite, one shorter than the seed, one longer, one of primes
\* with a gap before a large last one, and one holding the first prime only.
FileLists ==
    {<<2, 3, 13, 15>>, <<2, 3, 13>>, <<2, 3, 5, 7, 11, 13, 17>>,
     <<2, 3, 5, 7, 11, 173>>, <<2>>}

Files ==
    {join([i \in 1..Len(l) |-> str(l[i])]) : l \in FileLists}

\* load's verify argument: off, a short sample, the default.
Verifies == {0, 2, 1000}

\* As Init, with the checkpoint file absent or left by another program.
InitIO ==
    /\ known_primes = InitState.kp
    /\ known_primes_contiguous = InitState.kpc
    /\ gens = [h \in Handles |-> None]
    /\ last = [op |-> "__init__", err |-> NoErr]
    /\ store \in {None} \cup {Some(t) : t \in Files}

\* p.load(fname, verify, load_smaller)
LoadCall(verify, load_smaller) ==
    LET r == load(St, store, verify, load_smaller)
    IN  /\ r.err # "Diverges"
        /\ known_primes' = r.st.kp
        /\ known_primes_contiguous' = r.st.kpc
        /\ last' = [op |-> "load", err |-> r.err]
        /\ UNCHANGED <<gens, store>>

\* p.save(fname, overwrite)
SaveCall(overwrite) ==
    LET r == save(St, store, overwrite)
    IN  /\ store' = r.file
        /\ last' = [op |-> "save", err |-> r.err]
        /\ UNCHANGED <<known_primes, known_primes_contiguous, gens>>

IOArgs == {9, 169}

IOCandLists == {<<13, 9>>}

IOIterArgs == {<<None, Some(6), Some(5)>>}

\* The queries in a few forms, and the checkpoint operations.
NextIO ==
    \/ Queries(IOArgs, IOCandLists, {"g1"}, IOIterArgs)
    \/ \E verify \in Verifies, load_smaller \in BOOLEAN : LoadCall(verify, load_smaller)
    \/ \E overwrite \in BOOLEAN : SaveCall(overwrite)

SpecIO == InitIO /\ [][NextIO]_vars

RTArgs == {127, 173}

RTCandLists == {<<13, 9>>}

RTIterArgs ==
    {<<None, Some(7), Some(5)>>, <<None, Some(7), Some(6)>>, <<Some(13), None, None>>}

\* The queries in a few forms, save(fname, overwrite=True) and
\* load(fname, verify, load_smaller=True), from a fresh engine and no file:
\* every file is one this engine saved.
NextRT ==
    \/ Queries(RTArgs, RTCandLists, {"g1"}, RTIterArgs)
    \/ SaveCall(TRUE)
    \/ \E verify \in Verifies : LoadCall(verify, TRUE)

SpecRT == Init /\ [][NextRT]_vars

TwoArgs == {173}

TwoCandLists == {<<13, 9>>}

TwoIterArgs == {Unbounded, <<Some(13), None, None>>, <<None, Some(7), Some(5)>>}

\* Two generators held at once, advanced in any order between each other
\* and the other queries.
NextTwo == Queries(TwoArgs, TwoCandLists, Handles, TwoIterArgs)

SpecTwo == Init /\ [][NextTwo]_vars

-----------------------------------------------------------------------------
(* The claims.                                                             *)

NoGenerators == \A h \in Handles : gens[h] = None

NonDecreasing(s) == \A i \in 1..(Len(s) - 1) : s[i] <= s[i + 1]

\* C1: in every engine state reachable by queries, is_prime(n) for n >= 2
\* returns true exactly when no d with 2 <= d and d*d <= n divides n, and
\* false otherwise.
IsPrimeAgreesWithTrialDivision ==
    \A n \in Args :
        n >= 2 => LET r == is_prime(St, n)
                  IN  r.err = NoErr /\ r.rv = Some(TrialPrime(n))

\* An is_prime call has returned after growing the prefix to 17 by itself
\* and recording 173.
IsPrimeGrewPrefix ==
    /\ last.op = "is_prime"
    /\ NoGenerators
    /\ 173 \in known_primes
    /\ known_primes_contiguous = <<2, 3, 5, 7, 11, 13, 17>>

\* C2: in every engine state reachable by queries, prime_factors(n) for
\* n >= 2 returns a non-decreasing list of primes whose product is n, and
\* <<n>> when n is prime.
PrimeFactorsCorrect ==
    \A n \in Args :
        n >= 2 => LET r == prime_factors(St, n)
                  IN  /\ r.err = NoErr
                      /\ NonDecreasing(r.f)
                      /\ \A i \in 1..Len(r.f) : TrialPrime(r.f[i])
                      /\ Product(r.f) = n
                      /\ TrialPrime(n) => r.f = <<n>>

\* A prime_factors call has returned with the prefix grown, and factors
\* 169 from the grown prefix and 12 with multiplicity.
PrimeFactorsAfterGrowth ==
    /\ last.op = "prime_factors"
    /\ NoGenerators
    /\ known_primes = {2, 3, 5, 7, 11, 13}
    /\ prime_factors(St, 169).f = <<13, 13>>
    /\ prime_factors(St, 12).f = <<2, 2, 3>>

\* The generators created as iter_primes(max_value=M).
ValueBounded(s) ==
    s.g.max_value # None /\ s.g.max_num = None /\ s.g.start_num = None

\* C3: iter_primes(max_value=M), with no count bound and no start index,
\* yields the primes <= M in increasing order, each once, and nothing else:
\* what it has yielded is always an initial segment of them, and all of them
\* once it has ended.
IterMaxValueYieldsPrimesUpTo ==
    \A h \in Handles :
        (gens[h] # None /\ ValueBounded(gens[h][1])) =>
            LET s == gens[h][1]
                want == PrimesUpTo(s.g.max_value[1])
            IN  /\ s.err = NoErr
                /\ IsPrefixOf(s.out, want)
                /\ s.g.pc = "done" => s.out = want

\* iter_primes(max_value=13) has ended after extending the seed prefix.
IterMaxValueExtended ==
    \E h \in Handles :
        /\ gens[h] # None
        /\ ValueBounded(gens[h][1])
        /\ gens[h][1].g.pc = "done"
        /\ gens[h][1].len0 = Some(5)
        /\ gens[h][1].out = <<2, 3, 5, 7, 11, 13>>

\* The generators created as iter_primes(max_num=k[, start_num=s]) whose
\* body has started with s at most the length of the prefix.
CountBoundedStarted(s) ==
    /\ s.g.max_value = None /\ s.g.max_num # None
    /\ s.g.pc # "created"
    /\ (s.g.start_num # None => s.g.start_num[1] <= s.len0[1])

\* The primes at zero-based positions s .. k-1.
PrimesAt(s, k) == IF k <= s THEN <<>> ELSE SubSeq(FirstPrimes(k), s + 1, k)

\* C4: iter_primes(max_num=k, start_num=s) with s at most the length of the
\* prefix yields the primes at zero-based positions s .. k-1 in order
\* (nothing when k <= s), the first k primes when start_num is omitted.
IterMaxNumYieldsPositions ==
    \A h \in Handles :
        (gens[h] # None /\ CountBoundedStarted(gens[h][1])) =>
            LET s == gens[h][1]
                start == IF s.g.start_num = None THEN 0 ELSE s.g.start_num[1]
                want == PrimesAt(start, s.g.max_num[1])
            IN  /\ s.err = NoErr
                /\ IsPrefixOf(s.out, want)
                /\ s.g.pc = "done" => s.out = want

\* iter_primes(max_num=6, start_num=5) has ended, having started at the end
\* of the seed prefix and yielded the sixth prime.
IterMaxNumFromPrefixEnd ==
    \E h \in Handles :
        /\ gens[h] # None
        /\ CountBoundedStarted(gens[h][1])
        /\ gens[h][1].g.pc = "done"
        /\ gens[h][1].g.start_num = Some(5)
        /\ gens[h][1].len0 = Some(5)
        /\ gens[h][1].out = <<13>>

\* C5: in every engine state reachable by queries, are_prime(candidates), for
\* candidates >= 2, returns true exactly when every candidate is prime (true
\* for the empty list), wherever a composite stands.
ArePrimeIffAllPrime ==
    \A candidates \in CandLists :
        LET r == are_prime(St, candidates)
        IN  /\ r.err = NoErr
            /\ r.rv = Some(\A i \in 1..Len(candidates) : TrialPrime(candidates[i]))

\* An are_prime call has returned having recorded 127, and a list with a
\* composite first and a list with a composite last are both rejected.
ArePrimeAfterCall ==
    /\ last.op = "are_prime"
    /\ NoGenerators
    /\ 127 \in known_primes
    /\ are_prime(St, <<9, 13>>).rv = Some(FALSE)
    /\ are_prime(St, <<127, 169>>).rv = Some(FALSE)

\* C6: in every state reachable by queries, partially consumed generators
\* included, the prefix is exactly the ascending list of all primes from 2 up
\* to its last element.
PrefixIsAllPrimesUpToLast ==
    /\ known_primes_contiguous # <<>>
    /\ known_primes_contiguous =
         PrimesUpTo(known_primes_contiguous[Len(known_primes_contiguous)])

\* A partially consumed unbounded generator has extended the prefix to 19.
PrefixGrownByOpenGenerator ==
    /\ gens["g1"] # None
    /\ gens["g1"][1].g.pc = "suspended"
    /\ gens["g1"][1].g.max_value = None /\ gens["g1"][1].g.max_num = None
    /\ known_primes_contiguous = <<2, 3, 5, 7, 11, 13, 17, 19>>

\* C7: in every state reachable by queries whose integer arguments are all
\* >= 2, every element of the membership set is prime.
KnownPrimesArePrime == \A p \in known_primes : TrialPrime(p)

\* The set holds primes found out of order, beyond the prefix.
KnownPrimesBeyondPrefix ==
    /\ {127, 173} \subseteq known_primes
    /\ 127 \notin Range(known_primes_contiguous)
    /\ 173 \notin Range(known_primes_contiguous)

\* C8: after construction and after every completed call, load (successful
\* or failed) and save included, every element of the prefix is in the
\* membership set.
PrefixSubsetOfKnownPrimes == Range(known_primes_contiguous) \subseteq known_primes

\* A load has succeeded, replacing the seed by a shorter prefix and
\* rebuilding the set from it.
LoadRebuiltKnownPrimes ==
    /\ last.op = "load"
    /\ last.err = NoErr
    /\ known_primes_contiguous = <<2, 3, 13>>
    /\ known_primes = {2, 3, 13}

\* C9: whenever load fails, because the sample holds a non-prime or because
\* it would shrink the prefix, the prefix and the membership set are what
\* they were before the call.
FailedLoadLeavesCacheUnchanged ==
    [][(last'.op = "load" /\ last'.err \in {NameErrorVerifyNum, RegressionError})
         => (known_primes' = known_primes
             /\ known_primes_contiguous' = known_primes_contiguous)]_vars

\* One of the first verify numbers of the file is not prime.
SampleHasNonPrime(text, verify) ==
    /\ parse_lines(text) # None
    /\ \E i \in 1..Len(Slice(parse_lines(text)[1], verify)) :
           ~TrialPrime(parse_lines(text)[1][i])

\* C10: if verify > 0 and one of the first verify numbers of the file is not
\* prime, load fails with the corrupt-checkpoint error, whatever load_smaller
\* and the lengths are.
CorruptSampleRaisesCorruptCheckpointError ==
    \A verify \in Verifies, load_smaller \in BOOLEAN :
        (verify > 0 /\ store # None /\ SampleHasNonPrime(store[1], verify))
            => load(St, store, verify, load_smaller).err = CorruptCheckpointError

\* The numbers held by the checkpoint file, <<>> when there is none to parse.
Loaded == IF store = None \/ parse_lines(store[1]) = None THEN <<>>
          ELSE parse_lines(store[1])[1]

\* The verification of line 163 passes on the current cache, or is off.
VerificationPasses(verify) ==
    \/ verify = 0
    \/ are_prime(St, Slice(Loaded, verify)).rv = Some(TRUE)

\* C11: when verification passes (or verify is 0), load fails with the
\* regression error exactly when the prefix the engine has at the call is
\* strictly longer than the loaded sequence and load_smaller is false;
\* otherwise load succeeds and the prefix becomes the loaded sequence.
LoadRegressionExactlyWhenShrinking ==
    \A verify \in Verifies, load_smaller \in BOOLEAN :
        (store # None /\ parse_lines(store[1]) # None /\ VerificationPasses(verify))
            => LET r == load(St, store, verify, load_smaller)
               IN  IF Len(known_primes_contiguous) > Len(Loaded) /\ ~load_smaller
                   THEN r.err = RegressionError
                   ELSE r.err = NoErr /\ r.st.kpc = Loaded

\* C12: for every engine state reachable by queries, save(fname,
\* overwrite=True) followed by load(fname, load_smaller=True), on the same
\* engine or on another one (here a fresh engine, and one whose prefix
\* is_prime(173) has grown), succeeds and leaves the loading engine's prefix
\* equal to the saving engine's prefix at the save.
SaveThenLoadReproducesPrefix ==
    \A verify \in Verifies, loader \in {St, InitState, is_prime(InitState, 173).st} :
        LET s == save(St, store, TRUE)
            l == load(loader, s.file, verify, TRUE)
        IN  /\ s.err = NoErr
            /\ l.err = NoErr
            /\ l.st.kpc = known_primes_contiguous

\* The engine saved its seed prefix, a generator then extended the prefix by
\* 13, and a load of the saved file has put the seed prefix back.
RoundTripShrankPrefix ==
    /\ last.op = "load"
    /\ last.err = NoErr
    /\ store = Some(join([i \in 1..5 |-> str(SeedPrefix[i])]))
    /\ known_primes_contiguous = SeedPrefix
    /\ gens["g1"] # None
    /\ gens["g1"][1].out = <<13>>

\* C13: after every successful load, those with verify at least the length
\* of the loaded sequence included, the new prefix is exactly the primes from
\* 2 up to its last element, in ascending order.
LoadedPrefixIsAllPrimesUpToLast ==
    \A verify \in Verifies, load_smaller \in BOOLEAN :
        LET r == load(St, store, verify, load_smaller)
        IN  r.err = NoErr
              => /\ r.st.kpc # <<>>
                 /\ r.st.kpc = PrimesUpTo(r.st.kpc[Len(r.st.kpc)])

\* iter_primes with a start index, under every kind of bound.
StartArgs ==
    {<<mv, mn, Some(s)>> : mv \in {None, Some(3), Some(MaxValue)},
                           mn \in {None, Some(0), Some(MaxCount)},
                           s \in 0..(MaxPrefix + 1)}

\* C14: iter_primes with start index s fails with the out-of-range error
\* (NotImplementedError, raised by the first next()) exactly when s is
\* greater than the length of the prefix, s equal to it being accepted; when
\* it fails nothing is yielded and the prefix and the set are unchanged,
\* whatever max_value and max_num are.
StartBeyondPrefixRaises ==
    /\ \A a \in StartArgs :
          LET r == iter_next(St, NewGen(a[1], a[2], a[3]))
          IN  /\ (r.err = "NotImplementedError") <=> (a[3][1] > Len(known_primes_contiguous))
              /\ r.err = "NotImplementedError" => (r.ev = "raise" /\ r.st = St)
    /\ \A h \in Handles :
          (gens[h] # None /\ gens[h][1].err = "NotImplementedError")
              => /\ gens[h][1].out = <<>>
                 /\ gens[h][1].g.start_num # None
                 /\ gens[h][1].g.start_num[1] > gens[h][1].len0[1]

\* A generator created with start index 6 on a prefix of 5 primes raised at
\* its first next(), and the cache is what it was.
StartSixOnSeedRaised ==
    /\ last = [op |-> "next", err |-> "NotImplementedError"]
    /\ gens["g1"] # None
    /\ gens["g1"][1].g.start_num = Some(6)
    /\ gens["g1"][1].len0 = Some(5)
    /\ gens["g1"][1].out = <<>>
    /\ known_primes_contiguous = SeedPrefix
    /\ known_primes = Range(SeedPrefix)

\* C15: in every engine state reachable by queries and for every n >= 2, a
\* second is_prime(n) right after a first one returns the same boolean and
\* leaves the prefix and the set exactly as the first call left them.
IsPrimeTwiceIsIsPrimeOnce ==
    \A n \in Args :
        n >= 2 => LET first == is_prime(St, n)
                      second == is_prime(first.st, n)
                  IN  /\ first.err = NoErr /\ second.err = NoErr
                      /\ second.rv = first.rv
                      /\ second.st = first.st

\* is_prime(127) has returned, having grown the prefix to 13 and recorded
\* 127; asked again in this state it answers from the set.
IsPrimeAnswersFromSet ==
    /\ last.op = "is_prime"
    /\ NoGenerators
    /\ known_primes = {2, 3, 5, 7, 11, 13, 127}
    /\ known_primes_contiguous = <<2, 3, 5, 7, 11, 13>>
    /\ is_prime(St, 127) = [rv |-> Some(TRUE), err |-> NoErr, st |-> St]

\* C16: every step of every operation other than load (is_prime, are_prime,
\* prime_factors, iter_primes, each next() of a generator with the failed
\* start-index check, save) leaves the old prefix an initial segment of the
\* new one and the old set a subset of the new one.
CacheOnlyGrowsExceptOnLoad ==
    [][last'.op # "load"
         => /\ IsPrefixOf(known_primes_contiguous, known_primes_contiguous')
            /\ known_primes \subseteq known_primes']_vars

\* is_prime(127) left 127 in the set; a generator then extended the prefix
\* to 17 and the engine was saved: 127 is still in the set.
SetKeptAcrossGrowthAndSave ==
    /\ last = [op |-> "save", err |-> NoErr]
    /\ gens["g1"] # None
    /\ gens["g1"][1].out = <<13, 17>>
    /\ known_primes_contiguous = <<2, 3, 5, 7, 11, 13, 17>>
    /\ known_primes = {2, 3, 5, 7, 11, 13, 17, 127}

\* C17: in every engine state reachable by queries and for every n >= 2,
\* is_prime(n) ends with a boolean.  The growth loop tests candidates in
\* increasing order and ends by appending one, so the primes the call has
\* appended bound every candidate it has passed to is_prime: each is smaller
\* than n.  The divisor stream is read only while no prime p read so far
\* divides n or has p*p > n: when the call has grown the prefix, that holds
\* of every prime before the last one.
IsPrimeEndsByDescent ==
    \A n \in Args :
        n >= 2 =>
            LET r == is_prime(St, n)
                old == Len(known_primes_contiguous)
                new == Len(r.st.kpc)
            IN  /\ r.err = NoErr
                /\ r.rv \in {Some(TRUE), Some(FALSE)}
                /\ \A i \in (old + 1)..new : r.st.kpc[i] < n
                /\ new > old
                     => \A i \in 1..(new - 1) :
                            n % r.st.kpc[i] # 0 /\ r.st.kpc[i] * r.st.kpc[i] <= n

\* is_prime(169) has returned on a fresh engine: its divisor 13 is a prime
\* the growth loop appended while serving the call.
IsPrimeGrewPrefixToDivisor ==
    /\ last.op = "is_prime"
    /\ NoGenerators
    /\ St = is_prime(InitState, 169).st
    /\ known_primes_contiguous = <<2, 3, 5, 7, 11, 13>>
    /\ known_primes = {2, 3, 5, 7, 11, 13}

\* The candidates the growth loop passes to is_prime when a generator that
\* stands at the end of the prefix is advanced: kpc[-1] + 2 (line 73), then
\* every second number (line 76) up to the one it appends; all those below
\* the cap when the loop does not end.
GrowthCandidates ==
    IF known_primes_contiguous = <<>> THEN {}
    ELSE LET first == known_primes_contiguous[Len(known_primes_contiguous)] + 2
             r == iter_next(St, NewGen(None, None, Some(Len(known_primes_contiguous))))
             tested == IF r.err = "Diverges" THEN r.g.c - 2 ELSE r.g.c
         IN  {c \in first..tested : (c - first) % 2 = 0}

\* C18: in every reachable engine state, the states after a successful load
\* included, every candidate the growth loop passes to is_prime is odd.
GrowthCandidatesAreOdd == \A c \in GrowthCandidates : c % 2 = 1

\* What iter_primes(max_value, max_num, start_num) yields from first to
\* last: the primes at the positions from its start index on, as long as the
\* prime is at most max_value and the position below max_num.
YieldedAlone(g) ==
    LET start == IF g.start_num = None THEN 0 ELSE g.start_num[1]
        primes == PrimesAt(start, MaxPrefix + 2)
        within(i) == /\ g.max_value # None => primes[i] <= g.max_value[1]
                     /\ g.max_num # None => start + i - 1 < g.max_num[1]
    IN  SubSeq(primes, 1, Cardinality({i \in 1..Len(primes) : within(i)}))

\* C19: generators created on one engine and advanced in any interleaving
\* with each other and with is_prime, are_prime and prime_factors (no load)
\* each yield what they yield alone, the consecutive primes from their start
\* index: what a generator has yielded is an initial segment of that, and all
\* of it once the generator has ended.
InterleavedGeneratorsYieldAsAlone ==
    \A h \in Handles :
        gens[h] # None =>
            LET s == gens[h][1]
            IN  /\ s.err = NoErr
                /\ IsPrefixOf(s.out, YieldedAlone(s.g))
                /\ s.g.pc = "done" => s.out = YieldedAlone(s.g)

\* An unbounded generator started on the seed prefix has yielded 13 and 17
\* without ever running the growth loop itself (its c is still 1): both were
\* appended, while it was suspended, by iter_primes(max_num=7, start_num=5),
\* which has ended.
SuspendedGeneratorSawOthersGrowth ==
    /\ gens["g1"] # None /\ gens["g2"] # None
    /\ gens["g1"][1].g.max_value = None /\ gens["g1"][1].g.max_num = None
    /\ gens["g1"][1].len0 = Some(5)
    /\ gens["g1"][1].g.c = 1
    /\ gens["g1"][1].out = <<2, 3, 5, 7, 11, 13, 17>>
    /\ gens["g2"][1].g.max_num = Some(7)
    /\ gens["g2"][1].len0 = Some(5)
    /\ gens["g2"][1].g.pc = "done"
    /\ gens["g2"][1].out = <<13, 17>>
    /\ 173 \notin known_primes

\* C20: in every engine state reachable by queries, is_prime(0) returns
\* false and adds nothing to the set; is_prime(1) returns true and puts 1 in
\* the set, so that a later is_prime(1) answers true from the set; neither
\* changes the prefix.
IsPrimeOfZeroAndOne ==
    LET zero == is_prime(St, 0)
        one == is_prime(St, 1)
        again == is_prime(one.st, 1)
    IN  /\ zero = [rv |-> Some(FALSE), err |-> NoErr, st |-> St]
        /\ one = [rv |-> Some(TRUE), err |-> NoErr,
                  st |-> [kp |-> known_primes \cup {1}, kpc |-> known_primes_contiguous]]
        /\ again = [rv |-> Some(TRUE), err |-> NoErr, st |-> one.st]

\* is_prime(1) has returned on a fresh engine: 1 is in the set and the
\* prefix is the seed.
OneIsInKnownPrimes ==
    /\ last = [op |-> "is_prime", err |-> NoErr]
    /\ NoGenerators
    /\ known_primes = {1, 2, 3, 5, 7, 11}
    /\ known_primes_contiguous = SeedPrefix

=============================================================================
